---- MODULE Spec2Model ----
(***************************************************************************)
(* FedDefense Sim (src/index.tsx): the round simulation engine of the App  *)
(* component (runRound), its reset handler, the configuration handlers and *)
(* the interval timer that drives the rounds.                              *)
(*                                                                         *)
(* Numbers.  The program computes in IEEE doubles; the model computes in   *)
(* fixed point on integer grids:                                           *)
(*   gradients, normal samples, importance (FIM) values : 1/100  (SCALE)   *)
(*   nonIIDLevel, attackStealth (slider step 0.1)       : 1/10   (CFG)     *)
(*   accuracy, ASR, sine values                         : 1/10000 (FINE)   *)
(*   stiffness score, weighted distance                 : 1/10000 (FINE)   *)
(* A product that leaves its grid is rounded to the nearest grid point     *)
(* (RoundDiv); the three quantities the detection compares with a          *)
(* threshold (stiffness score, weighted distance, magnitude) are rounded   *)
(* up.  A grid value is not the double the code has: each of the three     *)
(* comes with a margin that bounds its distance from the code's value, and *)
(* a comparison whose two sides are closer than the margin has both        *)
(* results in the model, so that a round has a set of outcomes, the        *)
(* code's among them.                                                      *)
(* Vectors are sequences; the code's index i is position i + 1.            *)
(***************************************************************************)
EXTENDS Integers, Sequences, FiniteSets

VARIABLES
  state,                       \* SimulationState (useState, lines 121-128)
  isPlaying,                   \* line 108
  useMomentumFIM,              \* line 112
  useStiffnessMask,            \* line 113
  useLayerWeightedClustering,  \* line 114
  nonIIDLevel,                 \* line 117, in tenths
  attackStealth,               \* line 118, in tenths
  trueGradientRef,             \* line 131
  timer,                       \* the interval of the loop effect, lines 260-266
  twin,                        \* the SimulationState of a second run of the App
  pending,                     \* round updates queued by the interval and
                               \* not yet rendered (lines 136, 263)
  twinPending,                 \* the same queue of the second run
  submitted                    \* the value last set on each range input,
                               \* as set, in tenths (lines 361, 374)

vars == <<state, isPlaying, useMomentumFIM, useStiffnessMask,
          useLayerWeightedClustering, nonIIDLevel, attackStealth,
          trueGradientRef, timer, twin, pending, twinPending,
                 submitted>>

\* ----------------------------------------------------------------------
\* Program constants
\* ----------------------------------------------------------------------
VECTOR_DIM == 20
NUM_CLIENTS == 20
\* MALICIOUS_RATIO = 0.2, in hundredths
MALICIOUS_RATIO == 20
\* slice(-50), line 245
HISTORY_LIMIT == 50

\* ----------------------------------------------------------------------
\* Fixed-point grids
\* ----------------------------------------------------------------------
\* two decimal places, one, four
SCALE == 10 * 10
CFG == SCALE \div 10
FINE == SCALE * SCALE

\* ----------------------------------------------------------------------
\* Bounds of the model
\* ----------------------------------------------------------------------
\* rounds explored by the specifications that move every control
MaxRound == 1
\* rounds explored with every outcome of the random source in every round
MaxOutcomeRound == 3
\* rounds explored by the long-run specification (more than HISTORY_LIMIT)
MaxLongRound == 53
\* rounds the long-run specification explores while Mechanism B is on
MaxClusterRound == 13
\* modelled outcomes of the Math.random() source per round: 0 .. NumStreams-1
NumStreams == 3
\* the long-run specification changes the momentum-FIM flag every so many rounds
ToggleEvery == 25
\* round updates the interval may queue before React renders them
MaxPending == 1

RoundDiv(a, b) == (2 * a + b) \div (2 * b)
Abs(x) == IF x < 0 THEN -x ELSE x
Idx == 1 .. VECTOR_DIM

SinTab ==
  <<
   <<0, 8415, 9093, 1411, -7568, -9589, -2794, 6570, 9894, 4121, -5440, -10000, -5366, 4202, 9906, 6503, -2879, -9614, -7510, 1499>>,
   <<3090, 9672, 7362, -1717, -9217, -8243, 310, 8578, 8960, 1104, -7767, -9497, -2495, 6800, 9844, 3837, -5697, -9994, -5102, 4481>>,
   <<5878, 9983, 4910, -4677, -9965, -6091, 3383, 9746, 7149, -2021, -9333, -8064, 619, 8733, 8818, 796, -7958, -9395, -2194, 7024>>,
   <<8090, 9317, 1978, -7180, -9736, -3342, 6126, 9961, 4638, -4949, -9986, -5842, 3673, 9811, 6929, -2324, -9440, -7877, 928, 8880>>,
   <<9511, 7739, -1148, -8979, -8555, -265, 8268, 9200, 1673, -7392, -9661, -3048, 6367, 9929, 4362, -5216, -9998, -5588, 3959, 9866>>,
   <<10000, 5403, -4161, -9900, -6536, 2837, 9602, 7539, -1455, -9111, -8391, 44, 8439, 9074, 1367, -7597, -9577, -2752, 6603, 9887>>,
   <<9511, 2538, -6768, -9851, -3878, 5661, 9995, 5140, -4441, -9939, -6299, 3132, 9684, 7332, -1761, -9235, -8218, 354, 8601, 8940>>,
   <<8090, -575, -8711, -8839, -840, 7931, 9410, 2238, -6992, -9794, -3591, 5914, 9981, 4872, -4716, -9968, -6055, 3425, 9756, 7118>>,
   <<5878, -3632, -9802, -6961, 2281, 9425, 7904, -884, -8859, -8690, -531, 8116, 9301, 1935, -7210, -9726, -3300, 6160, 9957, 4599>>,
   <<3090, -6333, -9934, -4401, 5178, 9996, 5624, -3919, -9859, -6735, 2581, 9524, 7711, -1192, -8999, -8532, -221, 8293, 9183, 1630>>,
   <<0, -8415, -9093, -1411, 7568, 9589, 2794, -6570, -9894, -4121, 5440, 10000, 5366, -4202, -9906, -6503, 2879, 9614, 7510, -1499>>,
   <<-3090, -9672, -7362, 1717, 9217, 8243, -310, -8578, -8960, -1104, 7767, 9497, 2495, -6800, -9844, -3837, 5697, 9994, 5102, -4481>>,
   <<-5878, -9983, -4910, 4677, 9965, 6091, -3383, -9746, -7149, 2021, 9333, 8064, -619, -8733, -8818, -796, 7958, 9395, 2194, -7024>>,
   <<-8090, -9317, -1978, 7180, 9736, 3342, -6126, -9961, -4638, 4949, 9986, 5842, -3673, -9811, -6929, 2324, 9440, 7877, -928, -8880>>,
   <<-9511, -7739, 1148, 8979, 8555, 265, -8268, -9200, -1673, 7392, 9661, 3048, -6367, -9929, -4362, 5216, 9998, 5588, -3959, -9866>>,
   <<-10000, -5403, 4161, 9900, 6536, -2837, -9602, -7539, 1455, 9111, 8391, -44, -8439, -9074, -1367, 7597, 9577, 2752, -6603, -9887>>,
   <<-9511, -2538, 6768, 9851, 3878, -5661, -9995, -5140, 4441, 9939, 6299, -3132, -9684, -7332, 1761, 9235, 8218, -354, -8601, -8940>>,
   <<-8090, 575, 8711, 8839, 840, -7931, -9410, -2238, 6992, 9794, 3591, -5914, -9981, -4872, 4716, 9968, 6055, -3425, -9756, -7118>>,
   <<-5878, 3632, 9802, 6961, -2281, -9425, -7904, 884, 8859, 8690, 531, -8116, -9301, -1935, 7210, 9726, 3300, -6160, -9957, -4599>>,
   <<-3090, 6333, 9934, 4401, -5178, -9996, -5624, 3919, 9859, 6735, -2581, -9524, -7711, 1192, 8999, 8532, 221, -8293, -9183, -1630>>
  >>

\* ----------------------------------------------------------------------
\* Helper math (lines 56-102)
\* ----------------------------------------------------------------------
CeilDiv(a, b) == (a + b - 1) \div b

RECURSIVE SumTo(_, _)
\* reduce((sum, v) => sum + v, 0) over the first n entries of f
SumTo(f, n) == IF n = 0 THEN 0 ELSE SumTo(f, n - 1) + f[n]

RECURSIVE ArrayFrom(_, _)
\* Array.from({length: n}, (_, i) => f[i + 1]): the array of the values,
\* each computed once
ArrayFrom(f, n) == IF n = 0 THEN <<>> ELSE Append(ArrayFrom(f, n - 1), f[n])

RECURSIVE SqrtSearch(_, _, _)
SqrtSearch(x, lo, hi) ==
  IF lo >= hi THEN lo
  ELSE LET mid == (lo + hi) \div 2
       IN IF mid * mid >= x THEN SqrtSearch(x, lo, mid)
                            ELSE SqrtSearch(x, mid + 1, hi)

\* Math.sqrt of a FINE-grid value, on the SCALE grid, rounded up
Sqrt(x) == SqrtSearch(x, 0, 46340)

\* mag(a), line 102
mag(a) == Sqrt(SumTo([p \in Idx |-> a[p] * a[p]], VECTOR_DIM))

\* Outcomes of randomNormal() (lines 58-63), on the SCALE grid.  Box-Muller
\* over Math.random() yields any real of about -8.5 .. 8.5; these are the
\* representatives the model draws from.
NormalSamples ==
  <<0, 31, -52, 74, -95, 118, -140, 163, -21, 198, -67, 9, -112, 45, -253, 86>>
ExtremeSample == 8 * SCALE

\* The k-th randomNormal() of the modelled outcome s of the random source.
\* Draws k = VECTOR_DIM * c .. VECTOR_DIM * c + VECTOR_DIM - 1 make one
\* vector.  Outcome 0 is extreme in every draw; an odd outcome steps
\* through NormalSamples; an even one mixes the two: every third vector
\* extreme, every third half as large, the others typical.
Draw(s, k) ==
  LET typical == NormalSamples[((k * (2 * s + 1) + 3 * s)
                                  % Len(NormalSamples)) + 1]
      vector == k \div VECTOR_DIM
  IN  IF s = 0 THEN ExtremeSample
      ELSE IF s % 2 = 1 THEN typical
      ELSE IF vector % 3 = 0 THEN ExtremeSample
      ELSE IF vector % 3 = 1 THEN ExtremeSample \div 2
      ELSE typical

\* Math.sin(distribution * Math.PI * 2 + i), line 80; distribution is i/20
\* or 0.9, in hundredths
Sine(distribution, i) == SinTab[(distribution \div 5) + 1][i + 1]

\* ----------------------------------------------------------------------
\* Client generation (lines 66-96, 140-155)
\* ----------------------------------------------------------------------
\* ClientType with <= for <
ClientTypeInclusive(i, n, ratio) ==
  IF i * 100 <= n * ratio THEN "malicious" ELSE "benign"

\* line 141: i < NUM_CLIENTS * MALICIOUS_RATIO, the ratio in hundredths
ClientType(i, n, ratio) ==
  IF i * 100 < n * ratio THEN "malicious" ELSE "benign"

\* line 142, in hundredths
DataDistribution(type, i) ==
  IF type = "malicious" THEN 90 ELSE (i * 100) \div NUM_CLIENTS

\* lines 66-96; noise and stealth are this client's randomNormal() draws
generateGradient(type, distribution, level, strength, direction, noise, stealth) ==
  ArrayFrom([p \in Idx |->
               LET i == p - 1
                   val == direction[p]
                            + RoundDiv(noise[p] * level * 2, CFG)
                            + RoundDiv(Sine(distribution, i) * level,
                                       CFG * SCALE)
               IN  IF type = "malicious"
                   THEN IF i < 5
                        THEN val - strength * 5 * (SCALE \div CFG)
                        ELSE val + RoundDiv(stealth[p] * 5, 10)
                   ELSE val],
            VECTOR_DIM)

\* lines 140-155: client i of a round whose random outcome is s
NewClient(i, cfg, direction, s) ==
  LET type == ClientType(i, NUM_CLIENTS, MALICIOUS_RATIO)
      distribution == DataDistribution(type, i)
      strength == 15 - cfg.attackStealth
      noise == [p \in Idx |-> Draw(s, i * VECTOR_DIM + p - 1)]
      stealth == [p \in Idx |->
                    Draw(s, (NUM_CLIENTS + i) * VECTOR_DIM + p - 1)]
  IN  [id |-> i,
       type |-> type,
       dataDistribution |-> distribution,
       gradient |-> generateGradient(type, distribution, cfg.nonIIDLevel,
                                     strength, direction, noise, stealth),
       stiffnessViolationScore |-> 0,
       isAccepted |-> TRUE]

\* ----------------------------------------------------------------------
\* Momentum FIM (lines 163-169)
\* ----------------------------------------------------------------------
IdealFIM == [p \in Idx |-> IF p - 1 < 5 THEN 10 * SCALE ELSE SCALE]

\* EmaFIM with weights that do not sum to one: 0.9 * f + 0.2 * idealFIM[i]
EmaFIMOvershoot(fim) ==
  [p \in Idx |-> RoundDiv(9 * fim[p] + 2 * IdealFIM[p], 10)]

\* line 168: 0.9 * f + 0.1 * idealFIM[i]
EmaFIM(fim) == [p \in Idx |-> RoundDiv(9 * fim[p] + IdealFIM[p], 10)]

\* UpdateFIM that ignores the flag
UpdateFIMAlways(fim, enabled) == EmaFIM(fim)

UpdateFIM(fim, enabled) ==
  IF enabled THEN ArrayFrom(EmaFIM(fim), VECTOR_DIM) ELSE fim

\* ----------------------------------------------------------------------
\* Detection (lines 173-220)
\* ----------------------------------------------------------------------
\* lines 184-191, on the FINE grid, the quotient rounded up
StiffnessScore(gradient, fim) ==
  CeilDiv(SumTo([p \in Idx |-> fim[p] * Abs(gradient[p])], VECTOR_DIM),
          VECTOR_DIM)

\* line 194
StiffnessThreshold(cfg) ==
  ((IF cfg.useMomentumFIM THEN 12 ELSE 15) * (CFG + cfg.nonIIDLevel) * FINE)
    \div CFG

\* lines 203-208, on the FINE grid.  weight * diff * diff is a value of
\* the SCALE^3 grid; it is summed in two parts (whole FINE units and the
\* rest) and the sum is rounded up to the FINE grid.
WeightedDistance(gradient, fim, direction, weighted) ==
  LET weight(p) == IF weighted THEN fim[p] ELSE SCALE
      sq(p) == (gradient[p] - direction[p]) * (gradient[p] - direction[p])
      whole == SumTo([p \in Idx |-> weight(p) * (sq(p) \div SCALE)],
                     VECTOR_DIM)
      rest == SumTo([p \in Idx |-> weight(p) * (sq(p) % SCALE)], VECTOR_DIM)
  IN  whole + CeilDiv(rest, SCALE)

\* line 210
DistanceThreshold(cfg) == (500 * (CFG + cfg.nonIIDLevel) * FINE) \div CFG

\* line 216
MagnitudeLimit == 25 * SCALE

\* ----------------------------------------------------------------------
\* Precision.  The code computes lines 79-81, 168 and 184-216 in IEEE
\* doubles; the model keeps gradients and importance on the SCALE grid.
\* The margins bound the distance between a quantity of the model and the
\* double the code compares, so that a comparison within its margin is
\* one the model cannot decide: both results are outcomes of the round.
\* ----------------------------------------------------------------------
\* lines 79-81 and 91: noise, bias and the stealth term are each rounded to
\* the grid, half a unit apiece, and the sine table adds a hundredth
GradientMargin == 2

\* line 168: each update rounds by half a unit, e' <= 0.9 * e + 0.5; the
\* initial importance 1.0 is exact and 0.9 * 1 + 0.1 * 1 is 1.0 in doubles
FIMMargin(fim, p) == IF fim[p] = SCALE THEN 0 ELSE 5

\* lines 184-191: |f * |g| - f0 * |g0|| <= ef * (|g| + eg) + f * eg, on the
\* FINE grid, one unit more for the quotient rounded up
ScoreMargin(gradient, fim) ==
  CeilDiv(SumTo([p \in Idx |->
                   FIMMargin(fim, p) * (Abs(gradient[p]) + GradientMargin)
                     + fim[p] * GradientMargin], VECTOR_DIM),
          VECTOR_DIM) + 1

\* lines 203-208: the same bound for weight * diff * diff, on the FINE grid
DistanceMargin(gradient, fim, direction, weighted) ==
  LET weight(p) == IF weighted THEN fim[p] ELSE SCALE
      ef(p) == IF weighted THEN FIMMargin(fim, p) ELSE 0
      diff(p) == Abs(gradient[p] - direction[p])
  IN  CeilDiv(SumTo([p \in Idx |->
                       weight(p) * (2 * diff(p) * GradientMargin
                                      + GradientMargin * GradientMargin)
                         + ef(p) * (diff(p) + GradientMargin)
                                 * (diff(p) + GradientMargin)],
                    VECTOR_DIM),
              SCALE) + 1

\* line 102: |mag(g) - mag(g0)| <= mag(g - g0), one unit more for the root
\* rounded up
MagnitudeMargin ==
  Sqrt(VECTOR_DIM * GradientMargin * GradientMargin) + 1

\* The results the code's v > t can have when the model has v to within m
Exceeds(v, t, m) == IF Abs(v - t) <= m THEN BOOLEAN ELSE {v > t}

\* ScoreOf that computes the score whether or not Mechanism A is on
ScoreOfAlways(client, fim, cfg) == StiffnessScore(client.gradient, fim)

\* lines 178-196: Mechanism A's score, 0 when it is not evaluated
ScoreOf(client, fim, cfg) ==
  IF cfg.useStiffnessMask THEN StiffnessScore(client.gradient, fim) ELSE 0

\* Detected with the fallback applied whenever Mechanism A is off
DetectedFallbackWithB(client, fim, cfg, direction) ==
  LET a == IF cfg.useStiffnessMask
           THEN Exceeds(ScoreOf(client, fim, cfg), StiffnessThreshold(cfg),
                        ScoreMargin(client.gradient, fim))
           ELSE {FALSE}
      b == IF cfg.useLayerWeightedClustering /\ FALSE \in a
           THEN Exceeds(WeightedDistance(client.gradient, fim, direction,
                                         cfg.useLayerWeightedClustering),
                        DistanceThreshold(cfg),
                        DistanceMargin(client.gradient, fim, direction,
                                       cfg.useLayerWeightedClustering))
           ELSE {FALSE}
      c == IF ~cfg.useStiffnessMask
           THEN Exceeds(mag(client.gradient), MagnitudeLimit,
                        MagnitudeMargin)
           ELSE {FALSE}
  IN  {x \/ y \/ z : x \in a, y \in b, z \in c}

\* lines 174-217: the values isMaliciousDetected can have at the end of
\* the callback; both where a comparison that decides it is within its
\* margin
Detected(client, fim, cfg, direction) ==
  LET a == IF cfg.useStiffnessMask
           THEN Exceeds(ScoreOf(client, fim, cfg), StiffnessThreshold(cfg),
                        ScoreMargin(client.gradient, fim))
           ELSE {FALSE}
      b == IF cfg.useLayerWeightedClustering /\ FALSE \in a
           THEN Exceeds(WeightedDistance(client.gradient, fim, direction,
                                         cfg.useLayerWeightedClustering),
                        DistanceThreshold(cfg),
                        DistanceMargin(client.gradient, fim, direction,
                                       cfg.useLayerWeightedClustering))
           ELSE {FALSE}
      c == IF ~cfg.useStiffnessMask /\ ~cfg.useLayerWeightedClustering
           THEN Exceeds(mag(client.gradient), MagnitudeLimit,
                        MagnitudeMargin)
           ELSE {FALSE}
  IN  {x \/ y \/ z : x \in a, y \in b, z \in c}

\* lines 174-217: the callback up to its return, a client's score and the
\* values its isMaliciousDetected can have
Screen(client, fim, cfg, direction) ==
  [stiffnessScore |-> ScoreOf(client, fim, cfg),
   isMaliciousDetected |-> Detected(client, fim, cfg, direction)]

\* line 219, isMaliciousDetected being the one value the screening left,
\* or up where the comparison is within its margin
ProcessClient(client, screened, up) ==
  [client EXCEPT !.stiffnessViolationScore = screened.stiffnessScore,
                 !.isAccepted = ~(IF screened.isMaliciousDetected = BOOLEAN
                                  THEN up
                                  ELSE TRUE \in screened.isMaliciousDetected)]

\* ----------------------------------------------------------------------
\* Aggregation and metrics (lines 223-245)
\* ----------------------------------------------------------------------
AcceptedCount(clients) ==
  Cardinality({c \in DOMAIN clients : clients[c].isAccepted})

\* MaliciousAccepted that counts the rejected malicious clients too
MaliciousCounted(clients) ==
  Cardinality({c \in DOMAIN clients : clients[c].type = "malicious"})

\* lines 227-229
MaliciousAccepted(clients) ==
  Cardinality({c \in DOMAIN clients :
                 clients[c].isAccepted /\ clients[c].type = "malicious"})

\* line 235: maliciousAccepted / (acceptedCount || 1), on the FINE grid
AttackImpact(clients) ==
  LET acceptedCount == AcceptedCount(clients)
  IN  RoundDiv(MaliciousAccepted(clients) * FINE,
               IF acceptedCount = 0 THEN 1 ELSE acceptedCount)

\* line 238
TargetAcc(attackImpact) == (95 * FINE) \div 100 - RoundDiv(attackImpact * 5, 10)

\* NewAcc with weights that do not sum to one: 0.8 * prev + 0.3 * target
NewAccOvershoot(prevAcc, attackImpact) ==
  RoundDiv(prevAcc * 8 + TargetAcc(attackImpact) * 3, 10)

\* line 239
NewAcc(prevAcc, attackImpact) ==
  RoundDiv(prevAcc * 8 + TargetAcc(attackImpact) * 2, 10)

\* line 242
TargetASR(attackImpact) ==
  IF attackImpact > FINE \div 10 THEN (9 * FINE) \div 10 ELSE 0

\* line 243
NewASR(prevASR, attackImpact) ==
  RoundDiv(prevASR * 8 + TargetASR(attackImpact) * 2, 10)

\* SliceLast with an off-by-one start: keeps n + 1 entries
SliceLastOneMore(seq, n) ==
  IF Len(seq) <= n + 1 THEN seq ELSE SubSeq(seq, Len(seq) - n, Len(seq))

\* Array.prototype.slice(-n)
SliceLast(seq, n) ==
  IF Len(seq) <= n THEN seq ELSE SubSeq(seq, Len(seq) - n + 1, Len(seq))

\* NewHistory with slice(0, 50) for slice(-50): keeps the oldest entries
NewHistoryKeepOldest(history, entry) ==
  SubSeq(Append(history, entry), 1,
         IF Len(history) + 1 <= HISTORY_LIMIT THEN Len(history) + 1
         ELSE HISTORY_LIMIT)

\* line 245
NewHistory(history, entry) == SliceLast(Append(history, entry), HISTORY_LIMIT)

\* ----------------------------------------------------------------------
\* The round transition (lines 135-257): the updater passed to setState,
\* with the configuration cfg of the closure, the reference vector and the
\* outcome s of the random source
\* ----------------------------------------------------------------------
\* lines 140-155: the clients of the round
NewClients(cfg, direction, s) ==
  ArrayFrom([c \in 1 .. NUM_CLIENTS |-> NewClient(c - 1, cfg, direction, s)],
            NUM_CLIENTS)

\* lines 173-217: the screening of each client
Screening(newClients, currentFIM, cfg, direction) ==
  ArrayFrom([c \in 1 .. NUM_CLIENTS |->
               Screen(newClients[c], currentFIM, cfg, direction)],
            NUM_CLIENTS)

\* lines 219-255: the state returned; up is the set of clients whose
\* comparison, where it is within its margin, comes out as exceeding
Aggregate(prev, newClients, currentFIM, screening, up) ==
  LET newRound == prev.round + 1
      processedClients == ArrayFrom([c \in 1 .. NUM_CLIENTS |->
                                       ProcessClient(newClients[c],
                                                     screening[c],
                                                     c \in up)],
                                    NUM_CLIENTS)
      attackImpact == AttackImpact(processedClients)
      newAcc == NewAcc(prev.globalAccuracy, attackImpact)
      newASR == NewASR(prev.backdoorSuccessRate, attackImpact)
  IN  [round |-> newRound,
       clients |-> processedClients,
       globalAccuracy |-> newAcc,
       backdoorSuccessRate |-> newASR,
       globalFIM |-> currentFIM,
       history |-> NewHistory(prev.history,
                              [round |-> newRound, acc |-> newAcc,
                               asr |-> newASR])]

\* lines 136-256
runRound(prev, cfg, direction, s, up) ==
  LET newClients == NewClients(cfg, direction, s)
      currentFIM == UpdateFIM(prev.globalFIM, cfg.useMomentumFIM)
      screening == Screening(newClients, currentFIM, cfg, direction)
  IN  Aggregate(prev, newClients, currentFIM, screening, up)

\* lines 136-256: the states the updater can return, one for each way the
\* comparisons within their margins can come out
RoundOutcomes(prev, cfg, direction, s) ==
  LET newClients == NewClients(cfg, direction, s)
      currentFIM == UpdateFIM(prev.globalFIM, cfg.useMomentumFIM)
      screening == Screening(newClients, currentFIM, cfg, direction)
      undecided == {c \in 1 .. NUM_CLIENTS :
                      screening[c].isMaliciousDetected = BOOLEAN}
  IN  {Aggregate(prev, newClients, currentFIM, screening, up) :
         up \in SUBSET undecided}

\* lines 121-128 and 271-278
InitialState ==
  [round |-> 0,
   globalAccuracy |-> FINE \div 10,
   backdoorSuccessRate |-> 0,
   globalFIM |-> [p \in Idx |-> SCALE],
   clients |-> <<>>,
   history |-> <<>>]

\* The configuration a render of App closes over (lines 108-118)
Config(momentum, stiffness, clustering, level, stealth) ==
  [useMomentumFIM |-> momentum,
   useStiffnessMask |-> stiffness,
   useLayerWeightedClustering |-> clustering,
   nonIIDLevel |-> level,
   attackStealth |-> stealth]

\* lines 260-266: the effect clears the interval of the previous render
\* and, while playing, sets one that calls the runRound of this render
LoopEffect(playing, cfg) == [active |-> playing, closure |-> cfg]

\* The slider positions the model moves to: min and default of the
\* Non-IID slider and two positions at which a first round has
\* comparisons within their margins (0.1: Mechanism B; 1.8: Mechanism A
\* and the fallback); min and default of the stealth slider
Levels == {0, 1, 5, 18}
Stealths == {0, 6}

Streams == 0 .. NumStreams - 1

\* line 131: the VECTOR_DIM draws made at construction; the model follows
\* the runs of one outcome of them
Directions == {[p \in Idx |-> Draw(1, p - 1)]}

\* Values set on the range inputs: the slider positions and values
\* outside the documented ranges
SubmittedLevels == Levels \cup {-10, 25}
SubmittedStealths == Stealths \cup {-5, 9, 12}

Init ==
  /\ state = InitialState
  /\ isPlaying = FALSE
  /\ useMomentumFIM = TRUE
  /\ useStiffnessMask = TRUE
  /\ useLayerWeightedClustering = TRUE
  /\ nonIIDLevel = 5
  /\ attackStealth = 6
  /\ trueGradientRef \in Directions
  /\ timer = LoopEffect(FALSE, Config(TRUE, TRUE, TRUE, 5, 6))
  /\ twin = InitialState
  /\ pending = <<>>
  /\ twinPending = <<>>
  /\ submitted = [nonIIDLevel |-> 5, attackStealth |-> 6]

\* The updates of a queue applied in order (React's processing of the
\* state hook's queue): each is the updater of lines 136-256 with the
\* configuration of the closure that queued it; the result is the set of
\* states the queue can leave
RECURSIVE ApplyUpdates(_, _, _)
ApplyUpdates(prev, updates, direction) ==
  IF updates = <<>> THEN {prev}
  ELSE UNION {ApplyUpdates(next, Tail(updates), direction) :
                next \in RoundOutcomes(prev, Head(updates).cfg, direction,
                                       Head(updates).s)}

\* The render of a click (lines 314, 327, 340, 362, 375, 384).  React
\* renders the update of a click at once.  Whether that render also commits
\* the rounds the interval has queued depends on the React version, which
\* nothing in src/ fixes: a version that renders a timer's update apart
\* from a click's leaves them queued, one that renders both together
\* commits them with the click.  Either outcome is allowed at each click
ClickRender ==
  \/ UNCHANGED <<state, twin, pending, twinPending>>
  \/ /\ pending # <<>>
     /\ state' \in ApplyUpdates(state, pending, trueGradientRef)
     /\ twin' \in ApplyUpdates(twin, twinPending, trueGradientRef)
     /\ pending' = <<>>
     /\ twinPending' = <<>>

\* line 384
TogglePlay ==
  /\ ClickRender
  /\ isPlaying' = ~isPlaying
  /\ timer' = LoopEffect(~isPlaying,
                         Config(useMomentumFIM, useStiffnessMask,
                                useLayerWeightedClustering, nonIIDLevel,
                                attackStealth))
  /\ UNCHANGED <<useMomentumFIM, useStiffnessMask,
                 useLayerWeightedClustering, nonIIDLevel, attackStealth,
                 trueGradientRef, submitted>>

\* line 314
SetUseMomentumFIM ==
  /\ ClickRender
  /\ \E checked \in BOOLEAN :
       /\ useMomentumFIM' = checked
       /\ timer' = LoopEffect(isPlaying,
                              Config(checked, useStiffnessMask,
                                     useLayerWeightedClustering, nonIIDLevel,
                                     attackStealth))
  /\ UNCHANGED <<isPlaying, useStiffnessMask, useLayerWeightedClustering,
                 nonIIDLevel, attackStealth, trueGradientRef, submitted>>

\* line 327
SetUseStiffnessMask ==
  /\ ClickRender
  /\ \E checked \in BOOLEAN :
       /\ useStiffnessMask' = checked
       /\ timer' = LoopEffect(isPlaying,
                              Config(useMomentumFIM, checked,
                                     useLayerWeightedClustering, nonIIDLevel,
                                     attackStealth))
  /\ UNCHANGED <<isPlaying, useMomentumFIM, useLayerWeightedClustering,
                 nonIIDLevel, attackStealth, trueGradientRef, submitted>>

\* line 340
SetUseLayerWeightedClustering ==
  /\ ClickRender
  /\ \E checked \in BOOLEAN :
       /\ useLayerWeightedClustering' = checked
       /\ timer' = LoopEffect(isPlaying,
                              Config(useMomentumFIM, useStiffnessMask, checked,
                                     nonIIDLevel, attackStealth))
  /\ UNCHANGED <<isPlaying, useMomentumFIM, useStiffnessMask, nonIIDLevel,
                 attackStealth, trueGradientRef, submitted>>

\* The value a range input holds after it is set to raw (lines 361, 374:
\* type="range" with min and max): the element brings a value below min to
\* min and one above max to max; the values of the model are on the
\* step-0.1 grid, which the element leaves as they are
RangeValue(raw, min, max) ==
  IF raw < min THEN min ELSE IF raw > max THEN max ELSE raw

\* lines 361-362: the range input (min 0, max 2) is set to raw and its
\* handler runs setNonIIDLevel(parseFloat(e.target.value))
SetNonIIDLevel(values) ==
  /\ ClickRender
  /\ \E raw \in values :
       LET value == RangeValue(raw, 0, 20)
       IN  /\ submitted' = [submitted EXCEPT !.nonIIDLevel = raw]
           /\ nonIIDLevel' = value
           /\ timer' = LoopEffect(isPlaying,
                                  Config(useMomentumFIM, useStiffnessMask,
                                         useLayerWeightedClustering, value,
                                         attackStealth))
  /\ UNCHANGED <<isPlaying, useMomentumFIM, useStiffnessMask,
                 useLayerWeightedClustering, attackStealth, trueGradientRef>>

\* lines 374-375: the range input (min 0, max 0.9) is set to raw and its
\* handler runs setAttackStealth(parseFloat(e.target.value))
SetAttackStealth(values) ==
  /\ ClickRender
  /\ \E raw \in values :
       LET value == RangeValue(raw, 0, 9)
       IN  /\ submitted' = [submitted EXCEPT !.attackStealth = raw]
           /\ attackStealth' = value
           /\ timer' = LoopEffect(isPlaying,
                                  Config(useMomentumFIM, useStiffnessMask,
                                         useLayerWeightedClustering,
                                         nonIIDLevel, value))
  /\ UNCHANGED <<isPlaying, useMomentumFIM, useStiffnessMask,
                 useLayerWeightedClustering, nonIIDLevel, trueGradientRef>>

\* handleReset that keeps the accumulated importance vector
handleResetKeepFIM ==
  /\ isPlaying' = FALSE
  /\ state' = [InitialState EXCEPT !.globalFIM = state.globalFIM]
  /\ pending' = <<>>
  /\ timer' = LoopEffect(FALSE,
                         Config(useMomentumFIM, useStiffnessMask,
                                useLayerWeightedClustering, nonIIDLevel,
                                attackStealth))
  /\ UNCHANGED <<useMomentumFIM, useStiffnessMask,
                 useLayerWeightedClustering, nonIIDLevel, attackStealth,
                 trueGradientRef, twin,
                 twinPending,
                 submitted>>

\* lines 269-279.  The two updates of the click are rendered at once.  The
\* rounds still queued are ahead of the reset in the hook's queue: whether
\* they are rendered with the click or after it, the render that processes
\* them ends on the initial state, so the model drops them here
handleReset ==
  /\ isPlaying' = FALSE
  /\ state' = InitialState
  /\ pending' = <<>>
  /\ timer' = LoopEffect(FALSE,
                         Config(useMomentumFIM, useStiffnessMask,
                                useLayerWeightedClustering, nonIIDLevel,
                                attackStealth))
  /\ UNCHANGED <<useMomentumFIM, useStiffnessMask,
                 useLayerWeightedClustering, nonIIDLevel, attackStealth,
                 trueGradientRef, twin,
                 twinPending,
                 submitted>>

\* line 263: the interval fires and calls the runRound it was set with,
\* which queues the updater (line 136) and returns; the update comes from
\* a timer, so React renders it in a later task
Tick(maxRound, streams, maxPending) ==
  /\ timer.active
  /\ Len(pending) < maxPending
  /\ state.round + Len(pending) < maxRound
  /\ \E s \in streams :
       pending' = Append(pending, [cfg |-> timer.closure, s |-> s])
  /\ UNCHANGED <<state, isPlaying, useMomentumFIM, useStiffnessMask,
                 useLayerWeightedClustering, nonIIDLevel, attackStealth,
                 trueGradientRef, timer, twin, twinPending,
                 submitted>>

\* React renders the queued updates (lines 136-256) and commits the result
Render ==
  /\ pending # <<>>
  /\ state' \in ApplyUpdates(state, pending, trueGradientRef)
  /\ pending' = <<>>
  /\ UNCHANGED <<isPlaying, useMomentumFIM, useStiffnessMask,
                 useLayerWeightedClustering, nonIIDLevel, attackStealth,
                 trueGradientRef, timer, twin, twinPending,
                 submitted>>

\* Two runs of the App side by side: the same reference vector, the same
\* configuration at every round, each run with its own outcome of
\* Math.random() (the program has no seed to give them).  The intervals of
\* the two runs fire together
TwinTick(maxRound, streams, maxPending) ==
  /\ timer.active
  /\ Len(pending) < maxPending
  /\ state.round + Len(pending) < maxRound
  /\ \E s1 \in streams, s2 \in streams :
       /\ pending' = Append(pending, [cfg |-> timer.closure, s |-> s1])
       /\ twinPending' = Append(twinPending,
                                [cfg |-> timer.closure, s |-> s2])
  /\ UNCHANGED <<state, isPlaying, useMomentumFIM, useStiffnessMask,
                 useLayerWeightedClustering, nonIIDLevel, attackStealth,
                 trueGradientRef, timer, twin, submitted>>

\* Both runs render their queued updates
TwinRender ==
  /\ pending # <<>>
  /\ state' \in ApplyUpdates(state, pending, trueGradientRef)
  /\ twin' \in ApplyUpdates(twin, twinPending, trueGradientRef)
  /\ pending' = <<>>
  /\ twinPending' = <<>>
  /\ UNCHANGED <<isPlaying, useMomentumFIM, useStiffnessMask,
                 useLayerWeightedClustering, nonIIDLevel, attackStealth,
                 trueGradientRef, timer, submitted>>

\* Short runs under every interleaving of the interval, the renders and
\* the clicks: the boxes and the Non-IID slider are moved before the first
\* round is committed, the boxes also while it is queued; each queued
\* round is rendered before the interval fires again
Next ==
  \/ TogglePlay
  \/ (state.round = 0 /\ SetUseMomentumFIM)
  \/ (state.round = 0 /\ SetUseStiffnessMask)
  \/ (state.round = 0 /\ SetUseLayerWeightedClustering)
  \/ (state.round = 0 /\ pending = <<>> /\ SetNonIIDLevel(Levels))
  \/ handleReset
  \/ Tick(MaxRound, Streams, 1)
  \/ Render

Spec == Init /\ [][Next]_vars

\* Long runs: the simulation is left playing for more than HISTORY_LIMIT
\* rounds with Mechanism B off, and for MaxClusterRound rounds with it on
\* (its comparison comes within its margin as the importance grows, and
\* every such round has two outcomes or more).  The simulation is paused,
\* resumed and reset at any time; the detection boxes are set before the
\* first round, the momentum-FIM box is ticked or unticked every
\* ToggleEvery rounds, and the random source takes any modelled outcome in
\* the first round and outcome 1 in the later ones; up to MaxPending
\* rounds are queued before a render, and the boxes are left alone while a
\* round is queued.
NextLong ==
  \/ TogglePlay
  \/ (state.round % ToggleEvery = 0 /\ pending = <<>> /\ SetUseMomentumFIM)
  \/ (state.round = 0 /\ pending = <<>> /\ SetUseStiffnessMask)
  \/ (state.round = 0 /\ pending = <<>> /\ SetUseLayerWeightedClustering)
  \/ handleReset
  \/ Tick(IF timer.closure.useLayerWeightedClustering
          THEN MaxClusterRound ELSE MaxLongRound,
          IF state.round + Len(pending) = 0 THEN Streams ELSE {1},
          MaxPending)
  \/ Render

SpecLong == Init /\ [][NextLong]_vars

\* Runs in which every round may take any modelled outcome of the random
\* source, under every combination of the three boxes; the momentum-FIM
\* box is set before the first round and the detection boxes between any
\* two rounds; each queued round is rendered before the interval fires
\* again, and the boxes are left alone while a round is queued
NextOutcomes ==
  \/ TogglePlay
  \/ (state.round = 0 /\ pending = <<>> /\ SetUseMomentumFIM)
  \/ (pending = <<>> /\ SetUseStiffnessMask)
  \/ (pending = <<>> /\ SetUseLayerWeightedClustering)
  \/ handleReset
  \/ Tick(MaxOutcomeRound, Streams, 1)
  \/ Render

SpecOutcomes == Init /\ [][NextOutcomes]_vars

\* The range inputs set to values outside the documented ranges
NextConfig ==
  \/ TogglePlay
  \/ SetNonIIDLevel(SubmittedLevels)
  \/ SetAttackStealth(SubmittedStealths)
  \/ handleReset
  \/ Tick(MaxRound, {1}, 1)
  \/ Render

SpecConfig == Init /\ [][NextConfig]_vars

\* Two runs under one configuration
NextTwin ==
  \/ TogglePlay
  \/ SetUseMomentumFIM
  \/ SetUseStiffnessMask
  \/ SetUseLayerWeightedClustering
  \/ TwinTick(MaxRound, Streams, 1)
  \/ TwinRender

SpecTwin == Init /\ [][NextTwin]_vars

\* ----------------------------------------------------------------------
\* Properties
\* ----------------------------------------------------------------------
\* A step that commits one round
RoundStep == state'.round = state.round + 1

\* The configuration of the round a RoundStep commits: that of the closure
\* that queued it
RoundConfig == pending[Len(pending)].cfg

\* C1 (SpecLong).  History bound: history never has more than 50 entries,
\* and once more than 50 rounds have run since the last reset it has
\* exactly 50, the rounds round-49 .. round in increasing order.
HistoryBound ==
  /\ Len(state.history) <= 50
  /\ state.round > 50 =>
       /\ Len(state.history) = 50
       /\ \A k \in 1 .. 50 : state.history[k].round = state.round - 50 + k

\* C1 witness: more than 50 rounds have run and the window is full
HistoryFull == state.round > 50 /\ Len(state.history) = 50

\* C2 (SpecLong).  Importance-vector bound: every coordinate of globalFIM
\* is at least 0 and at most 10.0, whatever rounds, momentum-FIM toggles
\* and resets came before.
ImportanceBound ==
  \A p \in Idx : state.globalFIM[p] >= 0 /\ state.globalFIM[p] <= 10 * SCALE

\* C2 witness: the flag is off after the importance of a trigger coordinate
\* has grown past 9.9 over rounds in which the flag was toggled
ImportanceNearBound ==
  /\ ~useMomentumFIM
  /\ state.round > 0
  /\ state.globalFIM[1] > 99 * (SCALE \div 10)

\* C3 (Spec).  Malicious assignment: with the program's client count N
\* and malicious ratio r, the client list of every round has exactly
\* floor(N*r) clients typed malicious, the ones with the lowest indices
\* 0 .. floor(N*r)-1, and all others are benign.
MaliciousIsFloor ==
  state.round > 0 =>
    LET count == (NUM_CLIENTS * MALICIOUS_RATIO) \div 100
    IN  /\ Len(state.clients) = NUM_CLIENTS
        /\ \A c \in 1 .. NUM_CLIENTS :
             /\ state.clients[c].id = c - 1
             /\ c - 1 < count => state.clients[c].type = "malicious"
             /\ c - 1 >= count => state.clients[c].type = "benign"
        /\ Cardinality({c \in 1 .. NUM_CLIENTS :
                          state.clients[c].type = "malicious"}) = count

\* C3 witness: a committed round whose client of index 3 is malicious and
\* whose client of index 4 is benign
TypedClients ==
  /\ state.round > 0
  /\ state.clients[4].type = "malicious"
  /\ state.clients[5].type = "benign"

ImportanceFrame ==
  [][RoundStep =>
       IF RoundConfig.useMomentumFIM
       THEN \A p \in Idx :
              LET exact == 9 * state.globalFIM[p]
                             + (IF p <= 5 THEN 10 * SCALE ELSE SCALE)
              IN  /\ 2 * (10 * state'.globalFIM[p] - exact) <= 10
                  /\ 2 * (exact - 10 * state'.globalFIM[p]) < 10
       ELSE state'.globalFIM = state.globalFIM]_vars

\* C5 witness: the round after a toggle point ran with the flag off on an
\* importance vector that earlier rounds had raised
ImportanceCarried ==
  /\ ~useMomentumFIM
  /\ state.round > 1
  /\ state.round % ToggleEvery = 1
  /\ state.globalFIM[1] > 5 * SCALE

\* C6 (SpecLong).  Reset: from any state reset yields round 0, accuracy
\* 0.1, ASR 0, importance all ones, no clients and no history, and neither
\* reset nor any other step changes the TrueDirection reference vector.
ResetToInitial ==
  [][/\ trueGradientRef' = trueGradientRef
     /\ handleReset =>
          /\ state'.round = 0
          /\ state'.globalAccuracy * 10 = FINE
          /\ state'.backdoorSuccessRate = 0
          /\ \A p \in Idx : state'.globalFIM[p] = SCALE
          /\ state'.clients = <<>>
          /\ state'.history = <<>>
          /\ DOMAIN state' = {"round", "globalAccuracy",
                              "backdoorSuccessRate", "globalFIM",
                              "clients", "history"}]_vars

\* C6 witness: a playing simulation with a full history and an accumulated
\* importance vector, from which reset is taken
ResetFromAdvanced ==
  /\ isPlaying
  /\ state.round > 50
  /\ state.globalFIM[1] > 9 * SCALE
  /\ ENABLED handleReset

\* C7 (SpecLong).  Metric range: globalAccuracy and backdoorSuccessRate
\* are in [0,1] in every reachable state.
MetricRange ==
  /\ state.globalAccuracy >= 0 /\ state.globalAccuracy <= FINE
  /\ state.backdoorSuccessRate >= 0 /\ state.backdoorSuccessRate <= FINE

\* C7 witness: after many rounds with accepted malicious clients both
\* metrics have moved well away from their initial values
MetricsMoved ==
  /\ state.round > 20
  /\ state.globalAccuracy > 8 * (FINE \div 10)
  /\ state.backdoorSuccessRate > 8 * (FINE \div 10)

\* C8 (SpecOutcomes).  All-rejected guard: a round in which every client
\* is rejected completes with attackImpact 0: accuracy becomes
\* 0.8 * previous + 0.2 * 0.95 and ASR becomes 0.8 * previous, and the
\* round is recorded like any other.
AllRejectedGuard ==
  [][(RoundStep /\ \A c \in DOMAIN state'.clients :
                     ~state'.clients[c].isAccepted) =>
       /\ Len(state'.clients) = NUM_CLIENTS
       /\ state'.globalAccuracy
            = RoundDiv(8 * state.globalAccuracy + 2 * 95 * (FINE \div 100), 10)
       /\ state'.backdoorSuccessRate
            = RoundDiv(8 * state.backdoorSuccessRate, 10)
       /\ state'.history[Len(state'.history)]
            = [round |-> state'.round, acc |-> state'.globalAccuracy,
               asr |-> state'.backdoorSuccessRate]]_vars

\* C8 witness: a round has rejected every client, after a round that had
\* accepted malicious clients and raised the ASR
AllRejected ==
  /\ state.round > 1
  /\ Len(state.clients) = NUM_CLIENTS
  /\ \A c \in DOMAIN state.clients : ~state.clients[c].isAccepted
  /\ state.history[Len(state.history) - 1].asr > 0
  /\ state.backdoorSuccessRate > 0

\* C9 as claimed (SpecConfig): a configuration value outside its
\* documented range (nonIIDLevel in [0,2], attackStealth in [0,0.9]) is
\* rejected when it is submitted and not silently clamped, so the
\* configuration stays as it was, and no round ever runs with an
\* out-of-range configuration.
ConfigValidated ==
  [][/\ (/\ submitted'.nonIIDLevel # submitted.nonIIDLevel
         /\ submitted'.nonIIDLevel \notin 0 .. 20) =>
          nonIIDLevel' = nonIIDLevel
     /\ (/\ submitted'.attackStealth # submitted.attackStealth
         /\ submitted'.attackStealth \notin 0 .. 9) =>
          attackStealth' = attackStealth
     /\ RoundStep => /\ RoundConfig.nonIIDLevel \in 0 .. 20
                     /\ RoundConfig.attackStealth \in 0 .. 9]_vars

\* C10 as claimed (SpecTwin): two runs from the same initial state under
\* the same configuration at every round have identical RoundStates.
TwinsAgree == twin = state

\* C11 (Spec).  Stiffness score output: every client of an executed round
\* reports a score that is at least 0; it is exactly 0 when stiffnessMask
\* is off, and otherwise it is (sum over j of importance[j]*|gradient[j]|)
\* divided by D, with the importance vector of the new state (already
\* updated for this round), whichever mechanism accepted or rejected the
\* client.
StiffnessOutput ==
  [][RoundStep =>
       \A c \in DOMAIN state'.clients :
         LET client == state'.clients[c]
             score == client.stiffnessViolationScore
             sum == SumTo([p \in Idx |->
                             state'.globalFIM[p] * Abs(client.gradient[p])],
                          VECTOR_DIM)
         IN  /\ score >= 0
             /\ IF RoundConfig.useStiffnessMask
                THEN /\ score * VECTOR_DIM >= sum
                     /\ score * VECTOR_DIM < sum + VECTOR_DIM
                ELSE score = 0]_vars

\* C11 witness: a round run with stiffnessMask off and clustering on has
\* rejected a client (by Mechanism B) whose gradient is not zero and whose
\* reported score is 0, and accepted another
StiffnessZeroRejected ==
  /\ state.round > 0
  /\ timer.active
  /\ ~useStiffnessMask
  /\ useLayerWeightedClustering
  /\ \E c1, c2 \in DOMAIN state.clients :
       /\ ~state.clients[c1].isAccepted
       /\ state.clients[c1].stiffnessViolationScore = 0
       /\ \E p \in Idx : state.clients[c1].gradient[p] # 0
       /\ state.clients[c2].isAccepted
       /\ state.clients[c2].stiffnessViolationScore = 0

\* What C12 says of one state: history is empty iff round is 0, its length
\* is min(round, 50), its rounds are consecutive integers ending at round,
\* and its last entry carries the state's round, accuracy and ASR
HistoryMatchesRound ==
  LET h == state.history
      n == Len(h)
  IN  /\ (n = 0) <=> (state.round = 0)
      /\ n = (IF state.round <= HISTORY_LIMIT THEN state.round
              ELSE HISTORY_LIMIT)
      /\ \A k \in 1 .. n : h[k].round = state.round - n + k
      /\ n > 0 => h[n] = [round |-> state.round,
                          acc |-> state.globalAccuracy,
                          asr |-> state.backdoorSuccessRate]

\* C12 (SpecLong).  Round/history consistency: every round advance
\* increases round by exactly 1, so a render adds the number of rounds it
\* commits (the only other change of round is the reset to 0), and in every reachable state history is empty iff round is
\* 0, its length is min(round, 50), its rounds are consecutive integers
\* ending at state.round, and its last entry equals {round: state.round,
\* acc: state.globalAccuracy, asr: state.backdoorSuccessRate}.
RoundHistoryConsistent ==
  /\ HistoryMatchesRound
  /\ [][/\ HistoryMatchesRound'
        /\ state'.round # state.round =>
             \/ /\ pending # <<>>
                /\ state'.round = state.round + Len(pending)
             \/ state' = InitialState]_vars

\* C12 witness: past the 50-entry limit, after the metrics have moved, the
\* window starts at round - 49 and its last entry is the current round's
HistoryWindowSlid ==
  /\ state.round > HISTORY_LIMIT + 1
  /\ Len(state.history) = HISTORY_LIMIT
  /\ state.history[1].round = state.round - HISTORY_LIMIT + 1
  /\ state.history[HISTORY_LIMIT].round = state.round
  /\ state.history[HISTORY_LIMIT].asr = state.backdoorSuccessRate
  /\ state.backdoorSuccessRate > 0
  /\ state.history[1].acc # state.history[HISTORY_LIMIT].acc

\* The configuration in force: the values of the controls in this state
ConfigInForce ==
  Config(useMomentumFIM, useStiffnessMask, useLayerWeightedClustering,
         nonIIDLevel, attackStealth)

\* What C13 says of one state: an interval exists exactly while isPlaying,
\* and it calls the runRound of the configuration in force
DriverMatchesControls ==
  /\ timer.active <=> isPlaying
  /\ timer.active => timer.closure = ConfigInForce

====
